---- MODULE Spec2Model ----
(***************************************************************************)
(* Multi-processor bring-up and inter-processor signalling of              *)
(* kernel/processor/x64/multi_processor-x64.cpp.                           *)
(*                                                                         *)
(* Two specifications share the processor table and the signal slots:      *)
(*   SpecBoot  proc_mp_init on the bootstrap processor, the MADT walk, the *)
(*             INIT/STARTUP sequence and proc_mp_ap_startup on the APs;    *)
(*   Spec      proc_mp_x64_signal_proc called concurrently by several      *)
(*             senders and proc_mp_x64_receive_signal_int run from the     *)
(*             NMI of each target, starting from a booted table.           *)
(* A failed ASSERT or a panic() ends the context that executed it in the   *)
(* state "panic"; the other contexts are not forced to stop.               *)
(***************************************************************************)
EXTENDS Integers, Sequences, FiniteSets, TLC

VARIABLES
  \* ---- shared kernel state
  processor_count,      \* number of records of the processor table
  proc_info_block,      \* [0..processor_count-1 -> processor_info]
  inter_proc_signals,   \* [0..processor_count-1 -> proc_mp_ipi_msg_state]
  \* ---- signal channel
  snd,                  \* per sender: position in proc_mp_x64_signal_proc and its locals
  rx,                   \* per processor (hw id): position in the receive path
  nmi_pending,          \* per processor (hw id): an NMI is latched
  dispatch_log,         \* per kernel id: messages handed to proc_mp_receive_signal
  lin_order,            \* per kernel id: messages of the calls in lock-acquisition order
  holder,               \* per kernel id: the sender holding signal_lock, or NoSender
  calls_started,        \* number of signal calls made so far
  stray_sent,           \* number of NMIs raised by sources other than the kernel
  \* ---- boot
  madt,                 \* the MADT subtables as the firmware presents them now
  acpi_ok,              \* AcpiGetTable returns AE_OK
  local_apic_id,        \* proc_x64_apic_get_local_id() on the processor running proc_mp_init
  bsp,                  \* position in proc_mp_init and its locals
  ap,                   \* per processor (hw id): position in proc_mp_ap_startup
  now,                  \* time_get_system_timer_count()
  ipi_log,              \* INIT and STARTUP IPIs sent, in order
  trampoline_copied,    \* the kl_memcpy of lines 165-167 has run
  fw_changed            \* the firmware rewrote the MADT between the two passes

sigVars == <<snd, rx, nmi_pending, dispatch_log, lin_order, holder, calls_started,
             stray_sent>>
memVars == <<processor_count, proc_info_block, inter_proc_signals>>
bootVars == <<madt, acpi_ok, local_apic_id, bsp, ap, now, ipi_log, trampoline_copied,
              fw_changed>>
vars == <<memVars, sigVars, bootVars>>

----------------------------------------------------------------------------
\* Bounds of the model.
MaxCalls == 3      \* signal calls made by all senders together
MaxStray == 1      \* NMIs from non-kernel sources
MaxMadt == 3       \* subtables in the MADT

Senders == {"s1", "s2"}
NoSender == "none"

\* PROC_IPI_MSGS values used by senders; SUSPEND is also the filler of line 150.
Msgs == {"SUSPEND", "RESUME"}

\* PROC_MP_X64_MSG_STATE
NO_MSG == "NO_MSG"
MSG_WAITING == "MSG_WAITING"
ACKNOWLEDGED == "ACKNOWLEDGED"
MsgStates == {NO_MSG, MSG_WAITING, ACKNOWLEDGED}

\* Local-APIC ids of the processors of the booted machine used by Spec, in
\* table order (kernel id i has lapic id BootedLapicIds[i+1]).
BootedLapicIds == <<0, 2>>
HwIds == {BootedLapicIds[j] : j \in 1..Len(BootedLapicIds)}

\* Local-APIC ids of the machine SpecBoot boots.
BootHwIds == {0, 1, 2}

KernelIds == 0..(processor_count - 1)

----------------------------------------------------------------------------
\* Slot initialisation, lines 147-153.
InitSlots(n) ==
  [k \in 0..(n - 1) |->
     [msg_being_sent |-> "SUSPEND", msg_control_state |-> NO_MSG, signal_lock |-> 0]]

\* The table proc_mp_init leaves behind for the lapic ids `ids` (lines 122-124,
\* and running set by lines 178 and 248).
BootedTable(ids) ==
  [k \in 0..(Len(ids) - 1) |->
     [processor_id |-> k, processor_running |-> TRUE, lapic_id |-> ids[k + 1]]]

\* proc_mp_this_proc_id, lines 265-303: the processor_id of the first record
\* whose lapic_id matches, 0 with an empty table, -1 for the failed ASSERT.
ThisProcId(lapic_id, count, table) ==
  IF count > 0
  THEN LET hits == {k \in 0..(count - 1) : table[k].lapic_id = lapic_id}
       IN IF hits = {} THEN -1
          ELSE table[CHOOSE k \in hits : \A j \in hits : k <= j].processor_id
  ELSE 0

----------------------------------------------------------------------------
\* Values of the contexts at rest.

SndIdle ==
  [pc |-> "idle", proc_id |-> 0, msg |-> "SUSPEND", returned |-> FALSE,
   ndisp |-> 0, got |-> "SUSPEND", acked |-> FALSE, beside |-> {}, fatal |-> 0]

RxIdle == [pc |-> "idle", this_proc_id |-> 0, fatal |-> 0]

\* No signal call has been made and no NMI is latched.
SignalQuiet ==
  /\ snd = [s \in Senders |-> SndIdle]
  /\ rx = [h \in HwIds |-> RxIdle]
  /\ nmi_pending = [h \in HwIds |-> FALSE]
  /\ dispatch_log = [k \in 0..(Len(BootedLapicIds) - 1) |-> <<>>]
  /\ lin_order = [k \in 0..(Len(BootedLapicIds) - 1) |-> <<>>]
  /\ holder = [k \in 0..(Len(BootedLapicIds) - 1) |-> NoSender]
  /\ calls_started = 0
  /\ stray_sent = 0

----------------------------------------------------------------------------
\* proc_mp_init (lines 67-221) and proc_mp_ap_startup (lines 226-258).

SUBTABLE_LAPIC_TYPE == 0
OtherSubtableType == SUBTABLE_LAPIC_TYPE + 1

\* Durations are written in milliseconds (the source gives nanoseconds, which
\* exceed the integers TLC computes with).
WaitMs == 10000           \* 10000000000 ns, argument of time_get_system_timer_offset, line 170
StallMs == 10             \* 10000000 ns, argument of time_stall_process, line 193
SipiVector == 1           \* vector of the STARTUP IPI, line 199

\* Period of the system timer in ms: the granularity at which the model counts
\* time (one count is five seconds).
TimerPeriodMs == 5 * 1000

\* time_get_system_timer_offset: a duration as timer counts.
TimerOffset(ms) == ms \div TimerPeriodMs

\* The subtables a MADT is made of: local-APIC descriptors and one other type.
LapicSubtable(id) == [Type |-> SUBTABLE_LAPIC_TYPE, Id |-> id]
OtherSubtable == [Type |-> OtherSubtableType, Id |-> 0]
Subtables == {LapicSubtable(h) : h \in BootHwIds} \cup {OtherSubtable}
Madts == UNION {[1..n -> Subtables] : n \in 0..MaxMadt}

\* Mutant: every subtable is taken for a local-APIC descriptor.
IsLapicSubtable_Any(subtable) == TRUE

\* The tests of lines 96 and 115.
IsLapicSubtable(subtable) == subtable.Type = SUBTABLE_LAPIC_TYPE

\* The count pass, lines 91-102.
RECURSIVE CountPass(_, _, _)
CountPass(tbl, pos, count) ==
  IF pos > Len(tbl) THEN count
  ELSE CountPass(tbl, pos + 1, IF IsLapicSubtable(tbl[pos]) THEN count + 1 ELSE count)

\* A record of new processor_info[processor_count] (line 106) before it is filled.
UnsetRecord == [processor_id |-> -1, processor_running |-> FALSE, lapic_id |-> -1]

\* An element of new proc_mp_ipi_msg_state[processor_count] (line 107) before
\* lines 150-152 fill it.
UnsetSlot == [msg_being_sent |-> "unset", msg_control_state |-> "unset", signal_lock |-> -1]

\* Lines 122-124.
FillRecord(procs_saved, lapic) ==
  [processor_id |-> procs_saved, processor_running |-> FALSE, lapic_id |-> lapic.Id]

\* The fill pass, lines 110-134, with the ASSERT of line 118.
RECURSIVE FillPass(_, _, _, _, _)
FillPass(tbl, pos, procs_saved, count, table) ==
  IF pos > Len(tbl) THEN [table |-> table, procs_saved |-> procs_saved, fatal |-> 0]
  ELSE IF IsLapicSubtable(tbl[pos])
       THEN IF procs_saved < count
            THEN FillPass(tbl, pos + 1, procs_saved + 1, count,
                          [table EXCEPT ![procs_saved] = FillRecord(procs_saved, tbl[pos])])
            ELSE [table |-> table, procs_saved |-> procs_saved, fatal |-> 118]
       ELSE FillPass(tbl, pos + 1, procs_saved, count, table)

\* The steps of proc_mp_ap_startup in program order, lines 228-255.
ApSteps ==
  <<"enable_fp_math", "this_proc_id", "zero_kernel_gs_base", "install_idt", "pat_init",
    "syscall_prepare", "load_gdt", "load_tss", "conf_local_int_controller",
    "set_running", "start_interrupts", "stall", "panic">>

\* Mutant: the AP entry accepts processor number 0.
ApProcNumOk_Any(proc_num) == TRUE

\* The ASSERT of line 234.
ApProcNumOk(proc_num) == proc_num # 0

\* Mutant: an AP that gives up (line 255) marks itself not running.
ApTableAfter_ClearOnPanic(step, proc_num, table) ==
  IF step = "set_running" THEN [table EXCEPT ![proc_num].processor_running = TRUE]
  ELSE IF step = "panic" THEN [table EXCEPT ![proc_num].processor_running = FALSE]
  ELSE table

\* Mutant: the AP sets its flag where it zeroes KERNEL_GS_BASE.
ApTableAfter_PublishEarly(step, proc_num, table) ==
  IF step = "zero_kernel_gs_base" THEN [table EXCEPT ![proc_num].processor_running = TRUE]
  ELSE table

\* The processor table after an AP step: only line 248 stores into it.
ApTableAfter(step, proc_num, table) ==
  IF step = "set_running" THEN [table EXCEPT ![proc_num].processor_running = TRUE]
  ELSE table

\* Mutant: the result of the poll is not asserted.
RunningAsserted_Skipped(running) == TRUE

\* The ASSERT of line 212.
RunningAsserted(running) == running

\* The INIT IPI of lines 185-189.
InitIpi(lapic_id) == [kind |-> "INIT", to |-> lapic_id, vector |-> 0]

\* Mutant: the second proc_send_ipi repeats the INIT instead of sending STARTUP.
StartupIpi_InitAgain(lapic_id) == [kind |-> "INIT", to |-> lapic_id, vector |-> 0]

\* The STARTUP IPI of lines 196-200.
StartupIpi(lapic_id) == [kind |-> "STARTUP", to |-> lapic_id, vector |-> SipiVector]

BspStart ==
  [pc |-> "get_table", procs_saved |-> 0, i |-> 0, wait_offset |-> 0,
   start_time |-> 0, end_time |-> 0, fatal |-> 0]

ApOff == [pc |-> "off", step |-> 0, proc_num |-> 0, fatal |-> 0]

BspPanic(line) == bsp' = [bsp EXCEPT !.pc = "panic", !.fatal = line]

InitBoot ==
  /\ madt \in Madts
  /\ acpi_ok \in BOOLEAN
  /\ local_apic_id \in BootHwIds
  /\ bsp = BspStart
  /\ ap = [h \in BootHwIds |-> ApOff]
  /\ now = 0
  /\ ipi_log = <<>>
  /\ trampoline_copied = FALSE
  /\ fw_changed = FALSE
  /\ processor_count = 0
  /\ proc_info_block = <<>>
  /\ inter_proc_signals = <<>>
  /\ SignalQuiet

\* Lines 82-84.
BspGetTable ==
  /\ bsp.pc = "get_table"
  /\ IF ~acpi_ok THEN BspPanic(83)
     ELSE IF Len(madt) = 0 THEN BspPanic(84)
     ELSE bsp' = [bsp EXCEPT !.pc = "count"]
  /\ UNCHANGED <<memVars, sigVars, madt, acpi_ok, local_apic_id, ap, now, ipi_log,
                 trampoline_copied, fw_changed>>

\* Lines 87-107: the count pass and the two allocations.
BspCount ==
  LET count == CountPass(madt, 1, 0) IN
  /\ bsp.pc = "count"
  /\ processor_count' = count
  /\ proc_info_block' = [k \in 0..(count - 1) |-> UnsetRecord]
  /\ inter_proc_signals' = [k \in 0..(count - 1) |-> UnsetSlot]
  /\ bsp' = [bsp EXCEPT !.pc = "fill"]
  /\ UNCHANGED <<sigVars, madt, acpi_ok, local_apic_id, ap, now, ipi_log,
                 trampoline_copied, fw_changed>>

\* The ACPI tables change under the kernel between the two passes (comments of
\* lines 117 and 141).
FirmwareChange ==
  /\ bsp.pc = "fill"
  /\ ~fw_changed
  /\ fw_changed' = TRUE
  /\ \E m \in Madts : Len(m) > 0 /\ m # madt /\ madt' = m
  /\ UNCHANGED <<memVars, sigVars, acpi_ok, local_apic_id, bsp, ap, now, ipi_log,
                 trampoline_copied>>

\* Lines 110-134: the fill pass.
BspFill ==
  LET r == FillPass(madt, 1, 0, processor_count, proc_info_block) IN
  /\ bsp.pc = "fill"
  /\ proc_info_block' = r.table
  /\ bsp' = IF r.fatal = 0
            THEN [bsp EXCEPT !.pc = "assert_saved", !.procs_saved = r.procs_saved]
            ELSE [bsp EXCEPT !.pc = "panic", !.fatal = r.fatal,
                             !.procs_saved = r.procs_saved]
  /\ UNCHANGED <<processor_count, inter_proc_signals, sigVars, madt, acpi_ok,
                 local_apic_id, ap, now, ipi_log, trampoline_copied, fw_changed>>

\* Lines 137-142: the interrupt controllers are configured, then the ASSERT.
BspAssertSaved ==
  /\ bsp.pc = "assert_saved"
  /\ IF bsp.procs_saved = processor_count
     THEN bsp' = [bsp EXCEPT !.pc = "init_slots"]
     ELSE BspPanic(142)
  /\ UNCHANGED <<memVars, sigVars, madt, acpi_ok, local_apic_id, ap, now, ipi_log,
                 trampoline_copied, fw_changed>>

\* Lines 147-153.
BspInitSlots ==
  /\ bsp.pc = "init_slots"
  /\ inter_proc_signals' = InitSlots(processor_count)
  /\ bsp' = [bsp EXCEPT !.pc = "trampoline"]
  /\ UNCHANGED <<processor_count, proc_info_block, sigVars, madt, acpi_ok,
                 local_apic_id, ap, now, ipi_log, trampoline_copied, fw_changed>>

\* Lines 156-171: the GDT, the trampoline copy, wait_offset, and i = 0.
BspTrampoline ==
  /\ bsp.pc = "trampoline"
  /\ trampoline_copied' = TRUE
  /\ bsp' = [bsp EXCEPT !.pc = "loop", !.wait_offset = TimerOffset(WaitMs), !.i = 0]
  /\ UNCHANGED <<memVars, sigVars, madt, acpi_ok, local_apic_id, ap, now, ipi_log,
                 fw_changed>>

\* Mutant: no record is taken for the executing processor's.
IsExecutingProcessor_Never(lapic_id, local_id) == FALSE

\* The comparison of line 174.
IsExecutingProcessor(lapic_id, local_id) == lapic_id = local_id

\* Lines 171-179: the loop test, the comparison of line 174 and the store of
\* line 178 for the record of the executing processor.
BspLoop ==
  /\ bsp.pc = "loop"
  /\ IF ~(bsp.i < processor_count)
     THEN /\ bsp' = [bsp EXCEPT !.pc = "start_interrupts"]
          /\ UNCHANGED proc_info_block
     ELSE IF IsExecutingProcessor(proc_info_block[bsp.i].lapic_id, local_apic_id)
     THEN /\ proc_info_block' = [proc_info_block EXCEPT ![bsp.i].processor_running = TRUE]
          /\ bsp' = [bsp EXCEPT !.i = @ + 1]
     ELSE /\ bsp' = [bsp EXCEPT !.pc = "send_init"]
          /\ UNCHANGED proc_info_block
  /\ UNCHANGED <<processor_count, inter_proc_signals, sigVars, madt, acpi_ok,
                 local_apic_id, ap, now, ipi_log, trampoline_copied, fw_changed>>

\* Lines 185-190: the INIT IPI resets the processor it is addressed to.
BspSendInit ==
  LET h == proc_info_block[bsp.i].lapic_id IN
  /\ bsp.pc = "send_init"
  /\ ipi_log' = Append(ipi_log, InitIpi(h))
  /\ ap' = [ap EXCEPT ![h] = [ApOff EXCEPT !.pc = "wait_sipi"]]
  /\ bsp' = [bsp EXCEPT !.pc = "stall"]
  /\ UNCHANGED <<memVars, sigVars, madt, acpi_ok, local_apic_id, now,
                 trampoline_copied, fw_changed>>

\* Line 193: the 10 ms stall.
BspStall ==
  /\ bsp.pc = "stall"
  /\ now' = now + TimerOffset(StallMs)
  /\ bsp' = [bsp EXCEPT !.pc = "send_sipi"]
  /\ UNCHANGED <<memVars, sigVars, madt, acpi_ok, local_apic_id, ap, ipi_log,
                 trampoline_copied, fw_changed>>

\* Lines 196-204: the STARTUP IPI starts the processor at the trampoline, and the
\* deadline of the poll is computed.
BspSendSipi ==
  LET h == proc_info_block[bsp.i].lapic_id IN
  /\ bsp.pc = "send_sipi"
  /\ ipi_log' = Append(ipi_log, StartupIpi(h))
  /\ ap' = IF ap[h].pc = "wait_sipi"
           THEN [ap EXCEPT ![h] = [@ EXCEPT !.pc = "run", !.step = 1]]
           ELSE ap
  /\ bsp' = [bsp EXCEPT !.pc = "poll", !.start_time = now,
                        !.end_time = now + bsp.wait_offset]
  /\ UNCHANGED <<memVars, sigVars, madt, acpi_ok, local_apic_id, now,
                 trampoline_copied, fw_changed>>

\* The timer advances while the BSP polls.
Tick ==
  /\ bsp.pc = "poll"
  /\ now < bsp.end_time
  /\ now' = now + 1
  /\ UNCHANGED <<memVars, sigVars, madt, acpi_ok, local_apic_id, bsp, ap, ipi_log,
                 trampoline_copied, fw_changed>>

\* Lines 206-209: the loop is left when the deadline has passed or the flag is set.
BspPoll ==
  /\ bsp.pc = "poll"
  /\ ~((now < bsp.end_time) /\ (proc_info_block[bsp.i].processor_running = FALSE))
  /\ bsp' = [bsp EXCEPT !.pc = "assert_running"]
  /\ UNCHANGED <<memVars, sigVars, madt, acpi_ok, local_apic_id, ap, now, ipi_log,
                 trampoline_copied, fw_changed>>

\* Lines 212-214: the ASSERT, then the next record.
BspAssertRunning ==
  /\ bsp.pc = "assert_running"
  /\ IF RunningAsserted(proc_info_block[bsp.i].processor_running)
     THEN bsp' = [bsp EXCEPT !.pc = "loop", !.i = @ + 1]
     ELSE BspPanic(212)
  /\ UNCHANGED <<memVars, sigVars, madt, acpi_ok, local_apic_id, ap, now, ipi_log,
                 trampoline_copied, fw_changed>>

\* Lines 218-221: interrupts on, and the return.
BspReturn ==
  /\ bsp.pc = "start_interrupts"
  /\ bsp' = [bsp EXCEPT !.pc = "returned"]
  /\ UNCHANGED <<memVars, sigVars, madt, acpi_ok, local_apic_id, ap, now, ipi_log,
                 trampoline_copied, fw_changed>>

\* One step of proc_mp_ap_startup on processor h. this_proc_id (line 232) is
\* followed by the ASSERT of line 234; load_tss (line 245) looks the id up again.
ApStep(h) ==
  LET step == ApSteps[ap[h].step]
      id == ThisProcId(h, processor_count, proc_info_block)
  IN
  /\ ap[h].pc = "run"
  /\ ap' = [ap EXCEPT ![h] =
       IF step \in {"this_proc_id", "load_tss"} /\ id < 0
       THEN [@ EXCEPT !.pc = "panic", !.fatal = 297]
       ELSE IF step = "this_proc_id" /\ ~ApProcNumOk(id)
       THEN [@ EXCEPT !.pc = "panic", !.fatal = 234]
       ELSE IF step = "this_proc_id"
       THEN [@ EXCEPT !.proc_num = id, !.step = @ + 1]
       ELSE IF step = "panic"
       THEN [@ EXCEPT !.pc = "panic", !.fatal = 255]
       ELSE [@ EXCEPT !.step = @ + 1]]
  /\ proc_info_block' = ApTableAfter(step, ap[h].proc_num, proc_info_block)
  /\ UNCHANGED <<processor_count, inter_proc_signals, sigVars, madt, acpi_ok,
                 local_apic_id, bsp, now, ipi_log, trampoline_copied, fw_changed>>

\* The task manager takes the AP over during the stall of line 254.
ApScheduled(h) ==
  /\ ap[h].pc = "run"
  /\ ApSteps[ap[h].step] = "stall"
  /\ ap' = [ap EXCEPT ![h].pc = "scheduled"]
  /\ UNCHANGED <<memVars, sigVars, madt, acpi_ok, local_apic_id, bsp, now, ipi_log,
                 trampoline_copied, fw_changed>>

NextBoot ==
  \/ BspGetTable
  \/ BspCount
  \/ FirmwareChange
  \/ BspFill
  \/ BspAssertSaved
  \/ BspInitSlots
  \/ BspTrampoline
  \/ BspLoop
  \/ BspSendInit
  \/ BspStall
  \/ BspSendSipi
  \/ Tick
  \/ BspPoll
  \/ BspAssertRunning
  \/ BspReturn
  \/ \E h \in BootHwIds : ApStep(h)
  \/ \E h \in BootHwIds : ApScheduled(h)

SpecBoot == InitBoot /\ [][NextBoot]_vars

\* The state in which a boot of the machine of BootedLapicIds ends.
BootDone ==
  /\ madt = [j \in 1..Len(BootedLapicIds) |-> LapicSubtable(BootedLapicIds[j])]
  /\ acpi_ok = TRUE
  /\ local_apic_id = BootedLapicIds[1]
  /\ bsp = [BspStart EXCEPT !.pc = "returned", !.procs_saved = Len(BootedLapicIds),
                            !.i = Len(BootedLapicIds),
                            !.wait_offset = TimerOffset(WaitMs),
                            !.end_time = TimerOffset(WaitMs)]
  /\ ap = [h \in BootHwIds |->
             IF h \in HwIds /\ h # BootedLapicIds[1]
             THEN [pc |-> "scheduled", step |-> 12,
                   proc_num |-> ThisProcId(h, Len(BootedLapicIds), BootedTable(BootedLapicIds)),
                   fatal |-> 0]
             ELSE ApOff]
  /\ now = 0
  /\ ipi_log = <<[kind |-> "INIT", to |-> BootedLapicIds[2], vector |-> 0],
                 [kind |-> "STARTUP", to |-> BootedLapicIds[2], vector |-> SipiVector]>>
  /\ trampoline_copied = TRUE
  /\ fw_changed = FALSE
  /\ processor_count = Len(BootedLapicIds)
  /\ proc_info_block = BootedTable(BootedLapicIds)
  /\ inter_proc_signals = InitSlots(Len(BootedLapicIds))

----------------------------------------------------------------------------
\* The signal channel: proc_mp_x64_signal_proc (lines 316-345) and
\* proc_mp_x64_receive_signal_int (lines 352-365).

Slot(k) == inter_proc_signals[k]

SlotWith(k, field, value) == [inter_proc_signals EXCEPT ![k][field] = value]

\* Mutant: a lock that is handed out whether or not it is held.
SpinlockFree_AlwaysFree(lock) == TRUE

\* klib_synch_spinlock_lock (line 325) takes the lock only when it is free.
SpinlockFree(lock) == lock = 0

\* Mutant: the wait loop tests for "not NO_MSG" and so leaves on MSG_WAITING.
AckSeen_AnyNonIdle(state) == state # NO_MSG

\* The exit test of the wait loop of line 336.
AckSeen(state) == state = ACKNOWLEDGED

\* The ASSERT of line 323.
ValidTarget(proc_id) == proc_id < processor_count

\* The ASSERT of line 326.
SlotIdle(state) == state = NO_MSG

\* Mutant: the handler takes every NMI for a message.
MsgIsWaiting_Any(state) == TRUE

\* The ASSERT of line 358.
MsgIsWaiting(state) == state = MSG_WAITING

\* Mutant: the store of line 327 writes the filler of line 150, not the argument.
MsgToStore_Filler(msg) == "SUSPEND"

\* The value line 327 stores for a call with message msg.
MsgToStore(msg) == msg

\* Mutant: the receive path reads the message of slot 0, not of its own slot.
MsgToDispatch_SlotZero(slot) == inter_proc_signals[0].msg_being_sent

\* The value line 360 hands to proc_mp_receive_signal.
MsgToDispatch(slot) == slot.msg_being_sent

\* Signalling starts on the booted machine.
InitSignal == BootDone /\ SignalQuiet

\* Entry and the ASSERT of line 323, for a proc_id drawn from targets. A
\* counted call is one of the MaxCalls calls whose history is recorded.
SignalCallOn(s, targets, counted) ==
  /\ snd[s].pc = "idle"
  /\ counted => calls_started < MaxCalls
  /\ calls_started' = IF counted THEN calls_started + 1 ELSE calls_started
  /\ \E t \in targets, m \in Msgs :
       snd' = [snd EXCEPT ![s] =
                 [@ EXCEPT !.pc = IF ValidTarget(t) THEN "lock" ELSE "panic",
                           !.fatal = IF ValidTarget(t) THEN 0 ELSE 323,
                           !.proc_id = t, !.msg = m,
                           !.returned = FALSE, !.ndisp = 0,
                           !.got = "SUSPEND", !.acked = FALSE, !.beside = {}]]
  /\ UNCHANGED <<bootVars, memVars, rx, nmi_pending, dispatch_log, lin_order, holder, stray_sent>>

\* proc_id may be one past the table.
SignalCall(s) == SignalCallOn(s, 0..processor_count, TRUE)

\* Mutant: one lock, kept in slot 0, for every target.
LockSlot_Shared(proc_id) == 0

\* Lines 325, 342: the lock a call takes is the one in its target's slot.
LockSlot(proc_id) == proc_id

\* The targets other than t whose lock is held by a call that waits for the
\* acknowledgement.
BlockedElsewhere(t) ==
  {j \in KernelIds \ {t} : /\ holder[j] # NoSender
                            /\ snd[holder[j]].pc = "spin"
                            /\ Slot(j).signal_lock = 1
                            /\ Slot(j).msg_control_state = MSG_WAITING}

\* Line 325: spin until the lock is free, then take it. The order of lock
\* acquisitions is recorded when logged.
SignalLockAs(s, logged) ==
  LET t == snd[s].proc_id IN
  /\ snd[s].pc = "lock"
  /\ SpinlockFree(Slot(LockSlot(t)).signal_lock)
  /\ inter_proc_signals' = SlotWith(LockSlot(t), "signal_lock", 1)
  /\ holder' = [holder EXCEPT ![t] = s]
  /\ lin_order' = IF logged THEN [lin_order EXCEPT ![t] = Append(@, snd[s].msg)]
                  ELSE lin_order
  /\ snd' = [snd EXCEPT ![s] = [@ EXCEPT !.pc = "assert_idle",
                                         !.beside = BlockedElsewhere(t)]]
  /\ UNCHANGED <<bootVars, processor_count, proc_info_block, rx, nmi_pending, dispatch_log, calls_started, stray_sent>>

SignalLock(s) == SignalLockAs(s, TRUE)

\* Line 326.
SignalAssertIdle(s) ==
  LET t == snd[s].proc_id IN
  /\ snd[s].pc = "assert_idle"
  /\ snd' = [snd EXCEPT ![s] =
               IF SlotIdle(Slot(t).msg_control_state)
               THEN [@ EXCEPT !.pc = "write_msg"]
               ELSE [@ EXCEPT !.pc = "panic", !.fatal = 326]]
  /\ UNCHANGED <<bootVars, memVars, rx, nmi_pending, dispatch_log, lin_order, holder, calls_started, stray_sent>>

\* Line 327.
SignalWriteMsg(s) ==
  LET t == snd[s].proc_id IN
  /\ snd[s].pc = "write_msg"
  /\ inter_proc_signals' = SlotWith(t, "msg_being_sent", MsgToStore(snd[s].msg))
  /\ snd' = [snd EXCEPT ![s].pc = "write_state"]
  /\ UNCHANGED <<bootVars, processor_count, proc_info_block, rx, nmi_pending, dispatch_log,
                 lin_order, holder, calls_started, stray_sent>>

\* Line 328.
SignalPost(s) ==
  LET t == snd[s].proc_id IN
  /\ snd[s].pc = "write_state"
  /\ inter_proc_signals' = SlotWith(t, "msg_control_state", MSG_WAITING)
  /\ snd' = [snd EXCEPT ![s].pc = "send_ipi"]
  /\ UNCHANGED <<bootVars, processor_count, proc_info_block, rx, nmi_pending, dispatch_log,
                 lin_order, holder, calls_started, stray_sent>>

\* Mutant: every NMI goes to the processor of record 0.
NmiDestination_RecordZero(proc_id, table) == table[0].lapic_id

\* Line 332: the NMI is addressed to the target record's lapic id.
NmiDestination(proc_id, table) == table[proc_id].lapic_id

\* Lines 330-334: the NMI is latched at the processor with the target's lapic id.
SignalSendIpi(s) ==
  LET t == snd[s].proc_id IN
  /\ snd[s].pc = "send_ipi"
  /\ nmi_pending' = [nmi_pending EXCEPT ![NmiDestination(t, proc_info_block)] = TRUE]
  /\ snd' = [snd EXCEPT ![s].pc = "spin"]
  /\ UNCHANGED <<bootVars, memVars, rx, dispatch_log, lin_order, holder, calls_started, stray_sent>>

\* Lines 336-339: leave the loop once the state reads ACKNOWLEDGED.
SignalSpin(s) ==
  LET t == snd[s].proc_id IN
  /\ snd[s].pc = "spin"
  /\ AckSeen(Slot(t).msg_control_state)
  /\ snd' = [snd EXCEPT ![s].pc = "clear"]
  /\ UNCHANGED <<bootVars, memVars, rx, nmi_pending, dispatch_log, lin_order, holder, calls_started, stray_sent>>

\* Mutant: the store of line 341 is left out.
StateAfterClear_Kept(state) == state

\* Line 341: the state the caller leaves in the slot.
StateAfterClear(state) == NO_MSG

\* Line 341.
SignalClear(s) ==
  LET t == snd[s].proc_id IN
  /\ snd[s].pc = "clear"
  /\ inter_proc_signals' =
       SlotWith(t, "msg_control_state", StateAfterClear(Slot(t).msg_control_state))
  /\ snd' = [snd EXCEPT ![s].pc = "unlock"]
  /\ UNCHANGED <<bootVars, processor_count, proc_info_block, rx, nmi_pending, dispatch_log,
                 lin_order, holder, calls_started, stray_sent>>

\* Lines 342-345: release the lock and return.
SignalUnlock(s) ==
  LET t == snd[s].proc_id IN
  /\ snd[s].pc = "unlock"
  /\ inter_proc_signals' = SlotWith(LockSlot(t), "signal_lock", 0)
  /\ holder' = [holder EXCEPT ![t] = NoSender]
  /\ snd' = [snd EXCEPT ![s] = [@ EXCEPT !.pc = "idle", !.returned = TRUE,
                                         !.beside = @ \cap BlockedElsewhere(t)]]
  /\ UNCHANGED <<bootVars, processor_count, proc_info_block, rx, nmi_pending, dispatch_log,
                 lin_order, calls_started, stray_sent>>

\* An NMI raised by something other than proc_mp_x64_signal_proc.
StrayNmi(h) ==
  /\ stray_sent < MaxStray
  /\ stray_sent' = stray_sent + 1
  /\ nmi_pending' = [nmi_pending EXCEPT ![h] = TRUE]
  /\ UNCHANGED <<bootVars, memVars, snd, rx, dispatch_log, lin_order, holder, calls_started>>

\* The latched NMI enters the handler on processor h; lines 356 and 265-303.
RxEntry(h) ==
  LET id == ThisProcId(h, processor_count, proc_info_block) IN
  /\ nmi_pending[h]
  /\ rx[h].pc = "idle"
  /\ nmi_pending' = [nmi_pending EXCEPT ![h] = FALSE]
  /\ rx' = [rx EXCEPT ![h] =
              IF id >= 0
              THEN [@ EXCEPT !.pc = "assert", !.this_proc_id = id]
              ELSE [@ EXCEPT !.pc = "panic", !.fatal = 297]]
  /\ UNCHANGED <<bootVars, memVars, snd, dispatch_log, lin_order, holder, calls_started, stray_sent>>

\* Line 358.
RxAssert(h) ==
  LET k == rx[h].this_proc_id IN
  /\ rx[h].pc = "assert"
  /\ rx' = [rx EXCEPT ![h] =
              IF MsgIsWaiting(Slot(k).msg_control_state)
              THEN [@ EXCEPT !.pc = "dispatch"]
              ELSE [@ EXCEPT !.pc = "panic", !.fatal = 358]]
  /\ UNCHANGED <<bootVars, memVars, snd, nmi_pending, dispatch_log, lin_order, holder, calls_started, stray_sent>>

\* Line 360. The sender holding the slot's lock is credited with the dispatch.
RxDispatchAs(h, logged) ==
  LET k == rx[h].this_proc_id
      m == MsgToDispatch(Slot(k))
  IN
  /\ rx[h].pc = "dispatch"
  /\ dispatch_log' = IF logged THEN [dispatch_log EXCEPT ![k] = Append(@, m)]
                     ELSE dispatch_log
  /\ snd' = IF holder[k] \in Senders
            THEN [snd EXCEPT ![holder[k]] = [@ EXCEPT !.ndisp = @ + 1, !.got = m]]
            ELSE snd
  /\ rx' = [rx EXCEPT ![h].pc = "ack"]
  /\ UNCHANGED <<bootVars, memVars, nmi_pending, lin_order, holder, calls_started, stray_sent>>

RxDispatch(h) == RxDispatchAs(h, TRUE)

\* Lines 362-365.
RxAck(h) ==
  LET k == rx[h].this_proc_id IN
  /\ rx[h].pc = "ack"
  /\ inter_proc_signals' = SlotWith(k, "msg_control_state", ACKNOWLEDGED)
  /\ snd' = [s \in Senders |->
              [snd[s] EXCEPT !.acked = (@ \/ holder[k] = s),
                             !.beside = @ \ {k}]]
  /\ rx' = [rx EXCEPT ![h].pc = "idle"]
  /\ UNCHANGED <<bootVars, processor_count, proc_info_block, nmi_pending, dispatch_log,
                 lin_order, holder, calls_started, stray_sent>>

Next ==
  \/ \E s \in Senders : SignalCall(s)
  \/ \E s \in Senders : SignalLock(s)
  \/ \E s \in Senders : SignalAssertIdle(s)
  \/ \E s \in Senders : SignalWriteMsg(s)
  \/ \E s \in Senders : SignalPost(s)
  \/ \E s \in Senders : SignalSendIpi(s)
  \/ \E s \in Senders : SignalSpin(s)
  \/ \E s \in Senders : SignalClear(s)
  \/ \E s \in Senders : SignalUnlock(s)
  \/ \E h \in HwIds : StrayNmi(h)
  \/ \E h \in HwIds : RxEntry(h)
  \/ \E h \in HwIds : RxAssert(h)
  \/ \E h \in HwIds : RxDispatch(h)
  \/ \E h \in HwIds : RxAck(h)

Spec == InitSignal /\ [][Next]_vars

\* The signal channel with no bound on the number of calls: callers call
\* again and again, every target is in the table, every NMI comes from
\* proc_mp_x64_signal_proc, and no history is recorded.
LiveCall(s) == SignalCallOn(s, KernelIds, FALSE)

LiveLock(s) == SignalLockAs(s, FALSE)

LiveDispatch(h) == RxDispatchAs(h, FALSE)

\* A step of the call in progress on sender s.
SenderStep(s) ==
  \/ LiveLock(s)
  \/ SignalAssertIdle(s)
  \/ SignalWriteMsg(s)
  \/ SignalPost(s)
  \/ SignalSendIpi(s)
  \/ SignalSpin(s)
  \/ SignalClear(s)
  \/ SignalUnlock(s)

\* A step of the NMI handler on processor h.
ReceiverStep(h) ==
  \/ RxEntry(h)
  \/ RxAssert(h)
  \/ LiveDispatch(h)
  \/ RxAck(h)

NextLive ==
  \/ \E s \in Senders : LiveCall(s)
  \/ \E s \in Senders : SenderStep(s)
  \/ \E h \in HwIds : ReceiverStep(h)

\* Every processor keeps executing: a call in progress takes its next step
\* when that step stays possible, and a latched NMI is taken. An attempt at a
\* held lock is not a step; the lock (line 325) promises no order among the
\* callers that spin for it.
Fairness ==
  /\ \A s \in Senders : WF_vars(SenderStep(s))
  /\ \A h \in HwIds : WF_vars(ReceiverStep(h))

SpecLive == InitSignal /\ [][NextLive]_vars /\ Fairness

----------------------------------------------------------------------------
\* Properties of the signal channel, checked under Spec.

IsPrefix(a, b) == Len(a) <= Len(b) /\ SubSeq(b, 1, Len(a)) = a

\* Senders of a call on slot k that are past the ACK wait or have returned.
PastAck(s) == snd[s].pc \in {"clear", "unlock"} \/ snd[s].returned

\* Senders between the store of MSG_WAITING (line 328) and the store of NO_MSG
\* (line 341) on slot k.
InFlight(k) ==
  {s \in Senders : snd[s].proc_id = k /\ snd[s].pc \in {"send_ipi", "spin", "clear"}}

\* C1: a call of proc_mp_x64_signal_proc leaves its wait loop, and so returns,
\* only after the target's receive path dispatched the call's message and
\* stored ACKNOWLEDGED during that call; a caller past the loop never sees its
\* slot still MSG_WAITING.
C1_ReturnsOnlyAfterAck ==
  \A s \in Senders :
    /\ PastAck(s) => snd[s].acked /\ snd[s].ndisp >= 1 /\ snd[s].got = snd[s].msg
    /\ snd[s].pc = "clear" => Slot(snd[s].proc_id).msg_control_state = ACKNOWLEDGED
    /\ snd[s].pc = "unlock" => Slot(snd[s].proc_id).msg_control_state = NO_MSG

\* C1 witness: a call has returned and was acknowledged during the call.
C1_Witness ==
  \E s \in Senders : snd[s].pc = "idle" /\ snd[s].returned /\ snd[s].acked

\* C2: for every target at most one sender is between the store of MSG_WAITING
\* and the store of NO_MSG, and that sender is the holder of the slot's lock.
C2_AtMostOneInFlight ==
  \A k \in KernelIds :
    /\ Cardinality(InFlight(k)) <= 1
    /\ \A s \in InFlight(k) : holder[k] = s /\ Slot(k).signal_lock = 1

\* C2 witness: one sender is in flight on a target while another sender spins
\* on the lock of the same target.
C2_Witness ==
  \E s1, s2 \in Senders :
    /\ s1 # s2
    /\ snd[s1].pc = "spin" /\ snd[s2].pc = "lock"
    /\ snd[s1].proc_id = snd[s2].proc_id

\* C3: every returned call was matched by exactly one dispatch, of the call's own
\* message; no call is dispatched twice; and each target's dispatches are exactly
\* the calls that took its lock, less the one still waiting for its dispatch.
C3_ExactlyOneDispatch ==
  /\ \A s \in Senders :
       /\ snd[s].ndisp <= 1
       /\ snd[s].returned => snd[s].ndisp = 1 /\ snd[s].got = snd[s].msg
  /\ \A k \in KernelIds :
       Len(dispatch_log[k]) =
         Len(lin_order[k]) -
           (IF holder[k] \in Senders /\ snd[holder[k]].ndisp = 0 THEN 1 ELSE 0)

\* C3 witness: two senders have both returned from calls on the same target with
\* different messages.
C3_Witness ==
  \E k \in KernelIds :
    /\ \A s \in Senders : snd[s].returned /\ snd[s].pc = "idle" /\ snd[s].proc_id = k
    /\ {snd[s].msg : s \in Senders} = Msgs
    /\ Len(dispatch_log[k]) = 2

\* C4: the messages a target dispatches are, in order, the messages of the calls
\* in the order in which they took the target's lock.
C4_DispatchOrderIsLockOrder ==
  \A k \in KernelIds :
    /\ IsPrefix(dispatch_log[k], lin_order[k])
    /\ holder[k] = NoSender => dispatch_log[k] = lin_order[k]

\* C4 witness: a target has dispatched three messages, not all the same.
C4_Witness ==
  \E k \in KernelIds :
    /\ Len(dispatch_log[k]) = 3
    /\ dispatch_log[k][1] # dispatch_log[k][2]
    /\ dispatch_log[k][2] # dispatch_log[k][3]

\* C5 (as claimed): the receive path that finds its slot not MSG_WAITING is not
\* fatal: it never ends in the failed ASSERT of line 358.
C5_StrayNmiIsNotFatal ==
  \A h \in HwIds : ~(rx[h].pc = "panic" /\ rx[h].fatal = 358)

----------------------------------------------------------------------------
\* Properties of the bring-up, checked under SpecBoot.

\* The Ids of the local-APIC descriptors of a MADT, in iteration order.
LapicIds(tbl) ==
  LET lapics == SelectSeq(tbl, LAMBDA r : r.Type = SUBTABLE_LAPIC_TYPE)
  IN [j \in 1..Len(lapics) |-> lapics[j].Id]

\* proc_mp_init is past the ASSERT of line 142.
Enumerated ==
  \/ bsp.pc \in {"init_slots", "trampoline", "loop", "send_init", "stall", "send_sipi",
                 "poll", "assert_running", "start_interrupts", "returned"}
  \/ bsp.pc = "panic" /\ bsp.fatal = 212

\* The fill pass has run.
Filled == bsp.pc \notin {"get_table", "count", "fill"}

\* C6: whenever proc_mp_init returns, every record of the processor table has
\* processor_running = TRUE.
C6_AllRunningOnReturn ==
  bsp.pc = "returned" =>
    \A k \in 0..(processor_count - 1) : proc_info_block[k].processor_running

\* C6 witness: proc_mp_init has returned on the machine of BootedLapicIds, with
\* its AP started; this is the state signalling starts from.
C6_Witness == BootDone /\ SignalQuiet

\* C7: after enumeration the table has one record per local-APIC descriptor of
\* the MADT, record i has processor_id i and the Id of the i-th local-APIC
\* descriptor in iteration order; other subtables contribute nothing.
C7_EnumerationDense ==
  Enumerated =>
    LET ids == LapicIds(madt) IN
    /\ processor_count = Len(ids)
    /\ DOMAIN proc_info_block = 0..(Len(ids) - 1)
    /\ \A k \in 0..(Len(ids) - 1) :
         /\ proc_info_block[k].processor_id = k
         /\ proc_info_block[k].lapic_id = ids[k + 1]

\* C7 witness: enumeration of a MADT whose two local-APIC descriptors, with
\* different Ids, are separated by a subtable of another type.
C7_Witness ==
  /\ Enumerated
  /\ Len(madt) = 3
  /\ madt[2].Type # SUBTABLE_LAPIC_TYPE
  /\ madt[1].Type = SUBTABLE_LAPIC_TYPE /\ madt[3].Type = SUBTABLE_LAPIC_TYPE
  /\ madt[1].Id > madt[3].Id
  /\ processor_count = 2

\* C8: once the fill pass has written the records, no step of the BSP or of any
\* AP changes a processor_running flag from TRUE to FALSE (so each flag changes at
\* most once, from FALSE to TRUE).
C8_RunningMonotonic ==
  [][Filled =>
       \A k \in DOMAIN proc_info_block :
         proc_info_block[k].processor_running => proc_info_block'[k].processor_running]_vars

\* C8 witness: the flag of an AP's record is set while the BSP, its own flag set,
\* polls for a later AP that is executing its startup.
C8_Witness ==
  /\ bsp.pc = "poll"
  /\ \E k \in 0..(processor_count - 1) :
       /\ proc_info_block[k].processor_running
       /\ proc_info_block[k].lapic_id # local_apic_id
  /\ \E k \in 0..(processor_count - 1) :
       /\ proc_info_block[k].processor_running
       /\ proc_info_block[k].lapic_id = local_apic_id
  /\ \E h \in BootHwIds : ap[h].pc = "run" /\ ap[h].step < 10

\* C9: for a MADT with at least one local-APIC descriptor, whenever proc_mp_init
\* returns, record 0 carries the lapic id of the processor that ran proc_mp_init.
C9_RecordZeroIsBsp ==
  (bsp.pc = "returned" /\ Len(LapicIds(madt)) >= 1) =>
    proc_info_block[0].lapic_id = local_apic_id

\* C9 witness: proc_mp_init has returned with three processors, the first of
\* them the executing one.
C9_Witness ==
  /\ bsp.pc = "returned"
  /\ processor_count = 3
  /\ proc_info_block[0].lapic_id = local_apic_id
  /\ \A k \in 1..2 : proc_info_block[k].lapic_id # local_apic_id

\* C10 (as claimed): proc_mp_init never returns normally with an empty processor
\* table, nor with a fill pass that saw another number of local-APIC descriptors
\* than the count pass.
C10_InvalidFirmwareIsFatal ==
  bsp.pc = "returned" => processor_count >= 1 /\ bsp.procs_saved = processor_count

\* The IPIs proc_mp_init sends for records 0..k, one INIT and one STARTUP for
\* each record that is not the executing processor's, in table order.
RECURSIVE IpisThrough(_)
IpisThrough(k) ==
  IF k < 0 THEN <<>>
  ELSE IpisThrough(k - 1) \o
       (IF proc_info_block[k].lapic_id = local_apic_id THEN <<>>
        ELSE <<[kind |-> "INIT", to |-> proc_info_block[k].lapic_id, vector |-> 0],
               [kind |-> "STARTUP", to |-> proc_info_block[k].lapic_id, vector |-> 1]>>)

\* The number of IPIs of a kind sent to a lapic id.
IpiCount(kind, lapic_id) ==
  Cardinality({j \in 1..Len(ipi_log) : ipi_log[j].kind = kind /\ ipi_log[j].to = lapic_id})

\* proc_mp_init has ended in the ASSERT of line 212.
StartTimedOut == bsp.pc = "panic" /\ bsp.fatal = 212

\* C11: when proc_mp_init ends in the ASSERT of line 212 for record i, it has sent
\* one INIT and then one STARTUP for each non-BSP record up to i and nothing for
\* a later record, now and ever after; the processor of record i, when no earlier
\* record carries its lapic id, was sent exactly one INIT and one STARTUP.
C11_TimeoutFatalNoRetry ==
  StartTimedOut =>
    LET h == proc_info_block[bsp.i].lapic_id IN
    /\ ipi_log = IpisThrough(bsp.i)
    /\ ThisProcId(h, processor_count, proc_info_block) = bsp.i =>
         IpiCount("INIT", h) = 1 /\ IpiCount("STARTUP", h) = 1

\* C11 witness: the second of three processors did not start in time; the first
\* record is the BSP's and the third record was never signalled.
C11_Witness ==
  /\ StartTimedOut
  /\ processor_count = 3 /\ bsp.i = 1
  /\ proc_info_block[0].lapic_id = local_apic_id
  /\ IpiCount("INIT", proc_info_block[1].lapic_id) = 1
  /\ IpiCount("INIT", proc_info_block[2].lapic_id) = 0
  /\ proc_info_block[2].lapic_id # proc_info_block[1].lapic_id

----------------------------------------------------------------------------
\* C12: a signal call on one target changes nothing of any other target's
\* slot (lock, state, message) and raises no NMI on any other processor, and
\* whenever its own slot's lock is free a caller waiting for it can take it,
\* whatever locks other targets' callers hold.
C12_DistinctTargetsIndependent ==
  /\ [][\A s \in Senders : snd'[s].pc # snd[s].pc =>
          /\ \A k \in KernelIds \ {snd'[s].proc_id} :
                inter_proc_signals'[k] = inter_proc_signals[k]
          /\ \A h \in HwIds :
                nmi_pending'[h] # nmi_pending[h] =>
                  h = proc_info_block[snd[s].proc_id].lapic_id]_vars
  /\ [](\A s \in Senders :
          (snd[s].pc = "lock" /\ Slot(snd[s].proc_id).signal_lock = 0)
            => ENABLED SignalLock(s))

\* A call on one target took its lock and returned while a call on another
\* target held that target's lock and was still waiting to be acknowledged.
C12_Witness ==
  \E s1, s2 \in Senders :
    /\ s1 # s2
    /\ snd[s1].pc = "spin" /\ holder[snd[s1].proc_id] = s1
    /\ Slot(snd[s1].proc_id).msg_control_state = MSG_WAITING
    /\ snd[s2].returned /\ snd[s2].pc = "idle"
    /\ snd[s2].proc_id # snd[s1].proc_id
    /\ snd[s1].proc_id \in snd[s2].beside

----------------------------------------------------------------------------
\* The records of the processor table that carry a hardware id.
RecordsOf(lapic_id) ==
  {k \in 0..(processor_count - 1) : proc_info_block[k].lapic_id = lapic_id}

\* C13 (as claimed): after enumeration, on every processor whose hardware id
\* is in the table proc_mp_this_proc_id returns the one index whose record
\* carries that id; it returns 0 when the table is empty and is fatal when the
\* table is not empty and lacks the id. An AP's proc_num is that result.
C13_SelfIdUnique ==
  Enumerated =>
    \A h \in BootHwIds :
      LET r == ThisProcId(h, processor_count, proc_info_block) IN
      /\ RecordsOf(h) # {} => RecordsOf(h) = {r}
      /\ processor_count = 0 => r = 0
      /\ (processor_count > 0 /\ RecordsOf(h) = {}) => r < 0
      /\ (ap[h].pc = "run" /\ ap[h].step > 2) => ap[h].proc_num = r

----------------------------------------------------------------------------
\* Properties of the signal channel under fair execution, checked under
\* SpecLive.

\* The kernel ids of the booted machine.
BootedIds == 0..(Len(BootedLapicIds) - 1)

\* A slot that holds a posted message comes back to NO_MSG with its lock free.
PostedSlotCompletes ==
  \A k \in BootedIds :
    (inter_proc_signals[k].msg_control_state = MSG_WAITING)
      ~> (/\ inter_proc_signals[k].msg_control_state = NO_MSG
          /\ inter_proc_signals[k].signal_lock = 0)

\* C14 (as claimed): under fair execution a posted slot comes back to NO_MSG
\* with its lock free, and every call of proc_mp_x64_signal_proc returns, a
\* call that spins for a lock other callers keep taking included.
C14_EverySignalCallReturns ==
  /\ PostedSlotCompletes
  /\ \A s \in Senders :
       (snd[s].pc # "idle") ~> (snd[s].pc = "idle" /\ snd[s].returned)

\* C14 (amended): under fair execution a posted slot comes back to NO_MSG with
\* its lock free, every call that has taken its target's lock returns, and
\* while callers spin for a target's lock some caller takes it; which one is
\* not promised.
C14_LockHolderReturns ==
  /\ PostedSlotCompletes
  /\ \A s \in Senders :
       (snd[s].pc \notin {"idle", "lock"}) ~> (snd[s].pc = "idle" /\ snd[s].returned)
  /\ \A k \in BootedIds :
       (\E s \in Senders : snd[s].pc = "lock" /\ snd[s].proc_id = k)
         ~> (\E s \in Senders : snd[s].pc = "assert_idle" /\ snd[s].proc_id = k)

\* One caller spins for the lock of a target whose slot holds the posted
\* message of another caller.
C14_Witness ==
  \E s1, s2 \in Senders :
    /\ snd[s1].pc = "lock" /\ snd[s2].pc = "spin"
    /\ snd[s1].proc_id = snd[s2].proc_id
    /\ holder[snd[s2].proc_id] = s2
    /\ Slot(snd[s2].proc_id).msg_control_state = MSG_WAITING
    /\ calls_started = 0

----------------------------------------------------------------------------
\* C15: the IPIs proc_mp_init has sent are, in table order, one INIT followed
\* by one STARTUP with vector 1 for each record that is not the executing
\* processor's and nothing for a record that is (none at all when the table
\* is the executing processor's record alone); all of them once proc_mp_init returns; no STARTUP is sent
\* before the trampoline is copied; and when an IPI has been sent for a
\* record, every earlier record has processor_running = TRUE.
C15_SequentialBringUp ==
  /\ ~Filled => ipi_log = <<>>
  /\ Filled =>
       /\ IsPrefix(ipi_log, IpisThrough(processor_count - 1))
       /\ (processor_count = 1 /\ proc_info_block[0].lapic_id = local_apic_id)
            => ipi_log = <<>>
       /\ bsp.pc = "returned" => ipi_log = IpisThrough(processor_count - 1)
       /\ \A j \in 1..Len(ipi_log) :
            ipi_log[j].kind = "STARTUP" =>
              /\ trampoline_copied
              /\ ipi_log[j].vector = 1
              /\ ipi_log[j - 1] = [kind |-> "INIT", to |-> ipi_log[j].to, vector |-> 0]
       /\ \A k \in 0..(processor_count - 1) :
            Len(IpisThrough(k - 1)) < Len(ipi_log)
              => \A e \in 0..(k - 1) : proc_info_block[e].processor_running

\* proc_mp_init has returned after starting two APs, the second one only
\* after the first was running.
C15_Witness ==
  /\ bsp.pc = "returned"
  /\ processor_count = 3
  /\ Len(ipi_log) = 4
  /\ ipi_log[1].kind = "INIT" /\ ipi_log[2].kind = "STARTUP"
  /\ ipi_log[3].kind = "INIT" /\ ipi_log[4].kind = "STARTUP"
  /\ ipi_log[1].to # ipi_log[3].to
  /\ trampoline_copied

----------------------------------------------------------------------------
\* The wait the comments of lines 170 and 202 name: one second, in ms.
OneSecondMs == 1000

\* C16 (as claimed): the deadline of the poll for an AP is the timer count
\* read after the STARTUP IPI plus the counts of one second, and the BSP does
\* not poll a flag that stays FALSE beyond that count; the stall between INIT
\* and STARTUP is 10 ms.
C16_PollBoundedByOneSecond ==
  /\ StallMs = 10
  /\ bsp.pc \in {"poll", "assert_running"} =>
       /\ bsp.end_time = bsp.start_time + TimerOffset(OneSecondMs)
       /\ (bsp.pc = "poll" /\ ~proc_info_block[bsp.i].processor_running)
            => now <= bsp.start_time + TimerOffset(OneSecondMs)

----------------------------------------------------------------------------
\* The steps of proc_mp_ap_startup processor h has executed since it was
\* last started.
StepsDone(h) == {ApSteps[j] : j \in 1..(ap[h].step - 1)}

\* The initialisation the AP entry performs before it sets its flag.
DescriptorTableSteps == {"install_idt", "load_gdt", "load_tss"}
CpuFeatureSteps == {"pat_init", "syscall_prepare", "enable_fp_math"}
OnboardingSteps ==
  {"zero_kernel_gs_base"} \cup DescriptorTableSteps \cup CpuFeatureSteps
    \cup {"conf_local_int_controller"}

\* C17: the processor_running flag of a record goes from FALSE to TRUE only
\* by the store of the executing processor into its own record (line 178) or
\* by the store of an AP that carries the record's lapic id and has by then
\* zeroed KERNEL_GS_BASE, installed IDT, GDT and TSS, initialised PAT, the
\* syscall MSRs and FP and configured its local interrupt controller, and has
\* not yet enabled interrupts; and an AP that has enabled interrupts has its
\* flag set.
C17_RunningPublishedAfterInit ==
  /\ [][\A k \in DOMAIN proc_info_block \cap DOMAIN proc_info_block' :
          (~proc_info_block[k].processor_running /\ proc_info_block'[k].processor_running)
            => \/ /\ bsp.pc = "loop" /\ bsp.i = k
                  /\ proc_info_block[k].lapic_id = local_apic_id
               \/ \E h \in BootHwIds :
                    /\ ap[h].pc = "run" /\ ap'[h].step = ap[h].step + 1
                    /\ ap[h].proc_num = k /\ proc_info_block[k].lapic_id = h
                    /\ OnboardingSteps \subseteq StepsDone(h)
                    /\ "start_interrupts" \notin StepsDone(h)]_vars
  /\ [](\A h \in BootHwIds :
          "start_interrupts" \in StepsDone(h)
            => proc_info_block[ap[h].proc_num].processor_running)

\* The BSP has seen the flag of an AP's record set while that AP, past all of
\* its initialisation, has yet to enable interrupts.
C17_Witness ==
  /\ bsp.pc = "assert_running"
  /\ proc_info_block[bsp.i].processor_running
  /\ LET h == proc_info_block[bsp.i].lapic_id IN
       /\ h # local_apic_id
       /\ ap[h].pc = "run" /\ ap[h].proc_num = bsp.i
       /\ ApSteps[ap[h].step] = "start_interrupts"

\* C18 (as claimed): an AP zeroes KERNEL_GS_BASE before anything else, then
\* installs IDT, GDT and TSS, then initialises PAT, the syscall MSRs and FP,
\* then configures its local interrupt controller, then sets
\* processor_running, then enables interrupts.
C18_OnboardingInListedOrder ==
  \A h \in BootHwIds :
    LET done == StepsDone(h) IN
    /\ done # {} => "zero_kernel_gs_base" \in done
    /\ done \cap CpuFeatureSteps # {} => DescriptorTableSteps \subseteq done
    /\ "conf_local_int_controller" \in done => CpuFeatureSteps \subseteq done
    /\ "set_running" \in done => "conf_local_int_controller" \in done
    /\ "start_interrupts" \in done => "set_running" \in done

----------------------------------------------------------------------------
\* Sender s holds the lock of slot k and is about to execute the line at pc.
HolderAt(k, pc) ==
  /\ holder[k] \in Senders
  /\ inter_proc_signals[k].signal_lock = 1
  /\ snd[holder[k]].pc = pc /\ snd[holder[k]].proc_id = k

\* C19: msg_control_state changes only NO_MSG -> MSG_WAITING, by the holder
\* of the slot's lock at line 328; MSG_WAITING -> ACKNOWLEDGED, by the NMI
\* handler of the processor whose id indexes the slot, at line 362; and
\* ACKNOWLEDGED -> NO_MSG, by the holder of the lock at line 341.
\* msg_being_sent changes only by the store of the lock holder at line 327
\* with the state NO_MSG, hence never while the state is MSG_WAITING.
C19_SlotStateMachine ==
  [][\A k \in KernelIds :
       LET old == inter_proc_signals[k]
           new == inter_proc_signals'[k]
       IN
       /\ old.msg_control_state # new.msg_control_state =>
            \/ /\ old.msg_control_state = NO_MSG
               /\ new.msg_control_state = MSG_WAITING
               /\ HolderAt(k, "write_state") /\ snd'[holder[k]].pc = "send_ipi"
            \/ /\ old.msg_control_state = MSG_WAITING
               /\ new.msg_control_state = ACKNOWLEDGED
               /\ LET h == proc_info_block[k].lapic_id IN
                    rx[h].pc = "ack" /\ rx[h].this_proc_id = k /\ rx'[h].pc = "idle"
            \/ /\ old.msg_control_state = ACKNOWLEDGED
               /\ new.msg_control_state = NO_MSG
               /\ HolderAt(k, "clear") /\ snd'[holder[k]].pc = "unlock"
       /\ old.msg_being_sent # new.msg_being_sent =>
            /\ old.msg_control_state = NO_MSG
            /\ HolderAt(k, "write_msg") /\ snd'[holder[k]].pc = "write_state"
       /\ old.msg_control_state = MSG_WAITING => new.msg_being_sent = old.msg_being_sent
    ]_vars

\* A slot has gone round the three transitions: its lock holder has stored
\* NO_MSG over the acknowledgement of a message other than the filler.
C19_Witness ==
  \E k \in KernelIds :
    /\ HolderAt(k, "unlock")
    /\ snd[holder[k]].acked /\ snd[holder[k]].ndisp = 1
    /\ inter_proc_signals[k].msg_control_state = NO_MSG
    /\ inter_proc_signals[k].msg_being_sent = "RESUME"

----------------------------------------------------------------------------
\* C20: a slot whose signal_lock is free has msg_control_state NO_MSG and a
\* message of the enum in msg_being_sent; a caller that has just taken the
\* lock finds NO_MSG, so the ASSERT of line 326 never fails.
C20_UnlockedSlotIsIdle ==
  /\ \A k \in KernelIds :
       inter_proc_signals[k].signal_lock = 0 =>
         /\ inter_proc_signals[k].msg_control_state = NO_MSG
         /\ inter_proc_signals[k].msg_being_sent \in Msgs
  /\ \A s \in Senders :
       /\ snd[s].pc = "assert_idle" =>
            inter_proc_signals[snd[s].proc_id].msg_control_state = NO_MSG
       /\ ~(snd[s].pc = "panic" /\ snd[s].fatal = 326)

\* With no NMI but those of signal calls, a caller has passed the ASSERT of
\* line 326 on a slot that carried a message before, while another caller
\* spins for the same lock.
C20_Witness ==
  \E s1, s2 \in Senders :
    /\ stray_sent = 0
    /\ snd[s1].pc = "write_msg" /\ snd[s2].pc = "lock"
    /\ snd[s1].proc_id = snd[s2].proc_id
    /\ Len(dispatch_log[snd[s1].proc_id]) = 1
    /\ inter_proc_signals[snd[s1].proc_id].msg_being_sent = "RESUME"

====
